---------------------------- MODULE Spec2Model ----------------------------
(***************************************************************************)
(* Hotwheels-race: the fixed-timestep scheduler of Scene (Scene/scene.ts)  *)
(* and the vehicle of Car / CarControls (classes/Car.ts, the second,       *)
(* current definitions of both classes in that file).                      *)
(*                                                                         *)
(* Time is counted in units of 1/240 s, so that the shipped constants      *)
(* FIXED_TIMESTEP = 1/60 s, MAX_DELTA = 1/60 s and MIN_DELTA = 1/120 s are *)
(* the integers 4, 4 and 2, and frames of 1/30, 1/60, 1/120 and 1/240 s    *)
(* are 8, 4, 2 and 1.                                                      *)
(***************************************************************************)
EXTENDS Integers, Sequences, FiniteSets, TLC

VARIABLES
    \* ---- Scene (Scene/scene.ts) ----
    phase,               \* which asset-load callback of initialize() is still to come
    isInitialized,       \* Scene.isInitialized
    lastTime,            \* Scene.lastTime, in time units since construction
    physicsAccumulator,  \* Scene.physicsAccumulator
    rafPending,          \* a requestAnimationFrame(() => this.gameLoop()) is queued
    carInWorld,          \* physicsWorld.addCar(this.car) has run
    speedometer,         \* Scene.speedometer: "none", "active" or "disposed"
    physicsSteps,        \* number of updatePhysics calls so far
    renders,             \* number of updateRender calls so far (camera update + render)
    lastDelta,           \* measured (unclamped) delta of the latest frame, 0 before any
    stepsInFrame,        \* updatePhysics calls made by the latest frame
    allInRange,          \* every measured delta so far lay in [MIN_DELTA, MAX_DELTA]
    disposedAt,          \* phase in which dispose() was first called, "never" before
    \* ---- CarControls and Car (classes/Car.ts) ----
    keys,                \* CarControls.keys, by normalized key
    isEnabled,           \* CarControls.isEnabled
    body,                \* velocity, yaw rate and rear side impulses read by the latest Car.update
    tickKeys,            \* the key flags as read by the latest Car.update
    car,                 \* the car's registers: wheel infos, dampings, drift flag
    ref,                 \* the same car in a run with the same keys whose body never drifts
    \* ---- ThirdPersonCamera (classes/ThirdPersonCamera.ts) ----
    camera,              \* the camera's fields and what its latest call did
    \* ---- the speed handed to the engine speed factor ----
    probe,               \* a speed and the factors handleAcceleration and handleSteering compute for it
    \* ---- the wheel search of Car.initializeWheels ----
    wheelSearch          \* a model's wheel nodes and the wheel groups findWheelMeshes returns for them

sceneVars == <<phase, isInitialized, lastTime, physicsAccumulator, rafPending,
               carInWorld, speedometer, physicsSteps, renders, lastDelta,
               stepsInFrame, allInRange, disposedAt>>

carVars == <<keys, isEnabled, body, tickKeys, car, ref>>

nonSceneVars == <<carVars, camera, probe, wheelSearch>>

nonCarVars == <<sceneVars, camera, probe, wheelSearch>>

vars == <<sceneVars, carVars, camera, probe, wheelSearch>>

---------------------------------------------------------------------------
(* Scene.TIME_CONFIG, in units of 1/240 s *)
FIXED_TIMESTEP == 4
MAX_DELTA == 4
MIN_DELTA == 2
TIME_SCALE == 1

(* Number of rendered frames the model follows. *)
MaxFrames == 4

(* Measured frame deltas: 1/240 s, 1/120 s, 1/80 s, 1/60 s, 1/30 s and a    *)
(* stall of 5 s.                                                            *)
FrameDeltas == {1, 2, 3, 4, 8, 1200}

Min(a, b) == IF a <= b THEN a ELSE b
Max(a, b) == IF a >= b THEN a ELSE b

(* deltaTime = Math.max(Math.min(deltaTime, MAX_DELTA), MIN_DELTA) * TIME_SCALE *)
NoUpperClamp(deltaTime) == Max(deltaTime, MIN_DELTA) * TIME_SCALE
ClampDelta(deltaTime) == Max(Min(deltaTime, MAX_DELTA), MIN_DELTA) * TIME_SCALE

(* The loop guard of the fixed-step loop. *)
StrictLoopGuard(acc) == acc > FIXED_TIMESTEP
LoopGuard(acc) == acc >= FIXED_TIMESTEP

(* A loop that zeroes the accumulator after a step instead of subtracting. *)
RECURSIVE DropRemainderLoop(_, _)
DropRemainderLoop(acc, n) ==
    IF LoopGuard(acc) THEN DropRemainderLoop(0, n + 1)
                      ELSE <<acc, n>>

(* while (physicsAccumulator >= FIXED_TIMESTEP) { updatePhysics(FIXED_TIMESTEP); *)
(*     physicsAccumulator -= FIXED_TIMESTEP }                                    *)
(* run[1] is the accumulator after the loop, run[2] the number of updatePhysics  *)
(* calls it made.                                                                *)
RECURSIVE FixedStepLoop(_, _)
FixedStepLoop(acc, n) ==
    IF LoopGuard(acc) THEN FixedStepLoop(acc - FIXED_TIMESTEP, n + 1)
                      ELSE <<acc, n>>

(* The body of gameLoop once the isInitialized gate is passed, for a callback *)
(* that runs d time units after the previous one.                             *)
GameLoopBody(d) ==
    LET deltaTime == ClampDelta(d)
        run == FixedStepLoop(physicsAccumulator + deltaTime, 0)
    IN  /\ lastTime' = lastTime + d
        /\ physicsAccumulator' = run[1]
        /\ physicsSteps' = physicsSteps + run[2]
        /\ stepsInFrame' = run[2]
        /\ renders' = renders + 1
        /\ lastDelta' = d
        /\ allInRange' = (allInRange /\ d >= MIN_DELTA /\ d <= MAX_DELTA)
        /\ rafPending' = TRUE

(* A loop that is never gated. *)
NoGate == TRUE

(* The gate at the top of gameLoop. *)
GateOpen == isInitialized

SceneInit ==
    /\ phase = "loadingCar"
    /\ isInitialized = FALSE
    /\ lastTime = 0
    /\ physicsAccumulator = 0
    /\ rafPending = FALSE
    /\ carInWorld = FALSE
    /\ speedometer = "none"
    /\ physicsSteps = 0
    /\ renders = 0
    /\ lastDelta = 0
    /\ stepsInFrame = 0
    /\ allInRange = TRUE
    /\ disposedAt = "never"

(* loader.load('/models/car/car.glb', (gltf) => { ... }): the car is created, *)
(* the speedometer is created and the track load is started.                  *)
CarLoaded ==
    /\ phase = "loadingCar"
    /\ phase' = "loadingTrack"
    /\ speedometer' = "active"
    /\ UNCHANGED <<isInitialized, lastTime, physicsAccumulator, rafPending,
                   carInWorld, physicsSteps, renders, lastDelta, stepsInFrame,
                   allInRange, disposedAt, nonSceneVars>>

(* trackLoader.load('race.glb', (trackGltf) => { ... }): the car is added to *)
(* the physics world, isInitialized is set and gameLoop() is called.         *)
TrackLoaded ==
    /\ phase = "loadingTrack"
    /\ renders < MaxFrames
    /\ phase' = "loaded"
    /\ carInWorld' = TRUE
    /\ isInitialized' = TRUE
    /\ \E d \in FrameDeltas : GameLoopBody(d)
    /\ UNCHANGED <<speedometer, disposedAt, nonSceneVars>>

(* The requestAnimationFrame callback: gameLoop(). *)
GameLoop ==
    /\ rafPending
    /\ IF GateOpen
       THEN /\ renders < MaxFrames
            /\ \E d \in FrameDeltas : GameLoopBody(d)
            /\ UNCHANGED <<phase, isInitialized, carInWorld, speedometer, disposedAt>>
       ELSE /\ rafPending' = FALSE
            /\ UNCHANGED <<phase, isInitialized, lastTime, physicsAccumulator,
                           carInWorld, speedometer, physicsSteps, renders,
                           lastDelta, stepsInFrame, allInRange, disposedAt>>
    /\ UNCHANGED nonSceneVars

(* Scene.dispose() *)
Dispose ==
    /\ isInitialized' = FALSE
    /\ speedometer' = IF speedometer = "none" THEN "none" ELSE "disposed"
    /\ disposedAt' = IF disposedAt = "never" THEN phase ELSE disposedAt
    /\ UNCHANGED <<phase, lastTime, physicsAccumulator, rafPending, carInWorld,
                   physicsSteps, renders, lastDelta, stepsInFrame, allInRange,
                   nonSceneVars>>

SceneNext == CarLoaded \/ TrackLoaded \/ GameLoop \/ Dispose

---------------------------------------------------------------------------
(* CarControls (classes/Car.ts, second definition)                         *)

(* event.key values the keyboard delivers: the five control keys, the      *)
(* shifted "Z", and " " for the space bar.                                 *)
RawKeys == {"z", "Z", "s", "q", "d", " "}

(* String.prototype.toLowerCase on the keys above *)
ToLowerCase(key) == IF key = "Z" THEN "z" ELSE IF key = "O" THEN "o" ELSE key

(* CarControls.normalizeKey *)
NormalizeKey(key) ==
    LET lowerKey == ToLowerCase(key)
    IN  IF lowerKey = " " \/ lowerKey = "space" THEN "space" ELSE lowerKey

ControlKeys == {NormalizeKey(k) : k \in RawKeys}

(* this.keys = {}: no key has an entry, every lookup is undefined (false) *)
NoKeys == [k \in ControlKeys |-> FALSE]

(* CarControls.isKeyPressed on a key map ks *)
IsKeyPressed(ks, key) == ks[NormalizeKey(key)]

(* window 'keydown' listener *)
KeyDown(rawKey) ==
    /\ keys' = IF isEnabled THEN [keys EXCEPT ![NormalizeKey(rawKey)] = TRUE] ELSE keys
    /\ UNCHANGED <<isEnabled, body, tickKeys, car, ref, nonCarVars>>

(* window 'keyup' listener *)
KeyUp(rawKey) ==
    /\ keys' = IF isEnabled THEN [keys EXCEPT ![NormalizeKey(rawKey)] = FALSE] ELSE keys
    /\ UNCHANGED <<isEnabled, body, tickKeys, car, ref, nonCarVars>>

(* CarControls.enable(), through Car.enableControls() *)
Enable ==
    /\ isEnabled' = TRUE
    /\ UNCHANGED <<keys, body, tickKeys, car, ref, nonCarVars>>

(* A disable() that forgets to reset the key map. *)
DisableKeepKeys ==
    /\ isEnabled' = FALSE
    /\ UNCHANGED <<keys, body, tickKeys, car, ref, nonCarVars>>

(* CarControls.disable(), through Car.disableControls() *)
Disable ==
    /\ isEnabled' = FALSE
    /\ keys' = NoKeys
    /\ UNCHANGED <<body, tickKeys, car, ref, nonCarVars>>

---------------------------------------------------------------------------
(* Car (classes/Car.ts, second definition)                                 *)
(*                                                                         *)
(* Units: speeds in m/s and side impulses as in the source; yaw rate in    *)
(* 0.1 rad/s; friction (frictionSlip, material friction) in 1e-4; engine   *)
(* force in 1/300 N; brake in N; steering in 1e-5 rad; angular damping in  *)
(* 1e-8; linear damping in 1e-2; heading (the body's rotation about y) in  *)
(* quarter turns.  The forces and torques handed to the solver            *)
(* (applyForce, applyLocalForce, applyTorque) and the wheel and model      *)
(* meshes are not part of the state.                                       *)

(* Car.DRIFT_CONFIG *)
REAR_BRAKE_FORCE == 20
REAR_FRICTION_HANDBRAKE == 3000
REAR_FRICTION_NORMAL == 20000
FRONT_FRICTION == 24000
DRIFT_ANGLE_THRESHOLD == 3
DRIFT_INITIATION_SPEED == 40
DRIFT_MOMENTUM_FACTOR == 900
DRIFT_STABILITY_FACTOR == 7

(* Car.VEHICLE_DYNAMICS *)
MIN_SPEED_FACTOR == 2
MAX_SPEED_KMH == 180
MIN_STEERING_FACTOR == 3000
MAX_STEERING_SPEED_KMH == 200
TURN_RESISTANCE_FACTOR == 15
MIN_SPEED_FOR_LATERAL_RESISTANCE == 10
LATERAL_RESISTANCE_FACTOR == 2
BASE_LINEAR_DAMPING == 10
BASE_ANGULAR_DAMPING == 50000000

(* Car.PHYSICS_CONFIG *)
MAX_FORCE == 900000
MAX_STEER == 5
BRAKE_FORCE == 70
REVERSE_POWER_RATIO == 7
ENGINE_BRAKE_FACTOR == 3

Abs(x) == IF x < 0 THEN -x ELSE x
Sign(x) == IF x > 0 THEN 1 ELSE IF x < 0 THEN -1 ELSE 0

Wheels == 0..3

(* Body motions the solver hands to Car.update: velocity (x, z) and yaw    *)
(* rate.  At rest; past all three drift thresholds; and with exactly one   *)
(* of speed (40), yaw rate (0.3) and lateral velocity (0) not past its     *)
(* threshold; and past all three while sliding almost sideways, where the *)
(* lateral friction factor meets its floor.  The horizontal speeds are 0,  *)
(* 50, 40, 50, 50, 50.                                                     *)
Motions == {<<0, 0, 0>>, <<30, 40, -4>>, <<24, 32, 4>>, <<30, 40, 3>>, <<0, 50, -4>>,
            <<48, 14, -4>>}
Speeds == {0, 40, 50}

(* sideImpulse of wheelInfos[2] and wheelInfos[3] *)
SideImpulses == {<<0, 0>>, <<6, 0>>, <<0, -6>>}

(* The body states of a car that keeps the heading set at construction. *)
BodyStates == {[velocity |-> <<m[1], m[2]>>, angularVelocity |-> m[3], sideImpulse |-> si,
                heading |-> 0] :
                   m \in Motions, si \in SideImpulses}

(* Math.sqrt on the sums of squares that occur *)
Sqrt(n) == CHOOSE r \in Speeds : r * r = n

(* Car.getSpeed *)
GetSpeed(b) == Sqrt(b.velocity[1] * b.velocity[1] + b.velocity[2] * b.velocity[2])

(* Math.pow(1 - speed / MAX_STEERING_SPEED_KMH, STEERING_POWER_FACTOR) with *)
(* STEERING_POWER_FACTOR = 1.4, in 1e-4 and rounded to the nearest unit,    *)
(* for the speeds 0, 1, ..., MAX_STEERING_SPEED_KMH, where the base is in   *)
(* [0, 1].                                                                  *)
SteeringPowTable ==
    <<
       10000, 9930, 9860, 9791, 9721, 9652, 9583, 9513, 9445, 9376, 9307, 9239,
       9170, 9102, 9034, 8966, 8898, 8831, 8763, 8696, 8629, 8562, 8495, 8428,
       8361, 8295, 8229, 8162, 8097, 8031, 7965, 7899, 7834, 7769, 7704, 7639,
       7574, 7510, 7445, 7381, 7317, 7253, 7189, 7126, 7062, 6999, 6936, 6873,
       6810, 6747, 6685, 6622, 6560, 6498, 6437, 6375, 6313, 6252, 6191, 6130,
       6069, 6009, 5948, 5888, 5828, 5768, 5708, 5649, 5589, 5530, 5471, 5412,
       5354, 5295, 5237, 5179, 5121, 5063, 5006, 4948, 4891, 4834, 4777, 4721,
       4664, 4608, 4552, 4496, 4441, 4385, 4330, 4275, 4220, 4166, 4111, 4057,
       4003, 3949, 3896, 3842, 3789, 3736, 3684, 3631, 3579, 3527, 3475, 3423,
       3372, 3321, 3270, 3219, 3168, 3118, 3068, 3018, 2969, 2919, 2870, 2821,
       2773, 2724, 2676, 2628, 2580, 2533, 2486, 2439, 2392, 2346, 2300, 2254,
       2208, 2163, 2118, 2073, 2029, 1984, 1940, 1897, 1853, 1810, 1767, 1725,
       1683, 1641, 1599, 1558, 1517, 1476, 1436, 1396, 1356, 1317, 1278, 1239,
       1201, 1163, 1125, 1088, 1051, 1014, 978, 942, 907, 871, 837, 803,
       769, 735, 702, 670, 638, 606, 575, 544, 514, 484, 455, 426,
       398, 371, 344, 317, 291, 266, 242, 218, 195, 172, 151, 130,
       110, 92, 74, 57, 42, 28, 16, 6, 0
    >>

SteeringPow(speed) == SteeringPowTable[speed + 1]

(* Above MAX_STEERING_SPEED_KMH the base 1 - speed / 200 is negative, and   *)
(* Math.pow of a negative base with the exponent 1.4 is NaN.                *)
PowIsNaN(speed) == speed > MAX_STEERING_SPEED_KMH

(* speedFactor = Math.max(MIN_STEERING_FACTOR, Math.pow(...)) in            *)
(* Car.handleSteering, in 1e-4: Math.max returns NaN when an argument is    *)
(* NaN.  value is meaningful only when isNaN is false.                      *)
SteeringFactor(speed) ==
    IF PowIsNaN(speed)
    THEN [isNaN |-> TRUE, value |-> 0]
    ELSE [isNaN |-> FALSE, value |-> Max(MIN_STEERING_FACTOR, SteeringPow(speed))]

BodyAtRest == [velocity |-> <<0, 0>>, angularVelocity |-> 0, sideImpulse |-> <<0, 0>>,
               heading |-> 0]

(* Body states of a car driving straight ahead along its own forward axis *)
(* at 50 m/s, headed along +z, +x, -z and -x, and of one sliding sideways  *)
(* past the drift thresholds.                                              *)
DriveBodies ==
    {BodyAtRest,
     [velocity |-> <<0, 50>>, angularVelocity |-> 0, sideImpulse |-> <<0, 0>>, heading |-> 0],
     [velocity |-> <<50, 0>>, angularVelocity |-> 0, sideImpulse |-> <<0, 0>>, heading |-> 1],
     [velocity |-> <<0, -50>>, angularVelocity |-> 0, sideImpulse |-> <<0, 0>>, heading |-> 2],
     [velocity |-> <<30, 40>>, angularVelocity |-> -4, sideImpulse |-> <<0, -6>>, heading |-> 0]}

(* sin and cos of a heading of h quarter turns *)
Sin(h) == CASE h = 0 -> 0 [] h = 1 -> 1 [] h = 2 -> 0 [] h = 3 -> -1
Cos(h) == CASE h = 0 -> 1 [] h = 1 -> 0 [] h = 2 -> -1 [] h = 3 -> 0

(* body.vectorToLocalFrame(body.velocity): the velocity along the body's   *)
(* own x (right) and z (forward) axes.                                     *)
VectorToLocalFrame(b) ==
    <<b.velocity[1] * Cos(b.heading) - b.velocity[2] * Sin(b.heading),
      b.velocity[1] * Sin(b.heading) + b.velocity[2] * Cos(b.heading)>>

(* DEFAULT_CAR_CONFIG: maxSpeed in m/s, acceleration and deceleration in   *)
(* 0.1 m/s^2, rotationSpeed in 0.01 rad/s.                                 *)
DefaultCarConfig ==
    [maxSpeed |-> 30, acceleration |-> 10, deceleration |-> 5, rotationSpeed |-> 10]

(* { ...config, ...newConfig } *)
MergeConfig(config, newConfig) ==
    [f \in DOMAIN config |-> IF f \in DOMAIN newConfig THEN newConfig[f] ELSE config[f]]

(* The state new Car(model, config) leaves: initializePhysics creates the  *)
(* body with angularDamping 0.3 and linearDamping 0.05, addWheel gives the *)
(* front wheels frictionSlip 2.0 and the rear wheels 1.2, addWheelHelpers  *)
(* gives each wheel body a new CANNON.Material, whose friction is -1.      *)
NewCar ==
    [engineForce |-> [i \in Wheels |-> 0],
     brake |-> [i \in Wheels |-> 0],
     steering |-> [i \in Wheels |-> 0],
     frictionSlip |-> [i \in Wheels |-> IF i < 2 THEN 20000 ELSE 12000],
     wheelFriction |-> [i \in Wheels |-> -10000],
     angularDamping |-> 30000000,
     linearDamping |-> 5,
     isDriftDetected |-> FALSE,
     wasDrifting |-> FALSE,
     applyDriftCalls |-> 0,
     restoreNormalCalls |-> 0,
     updateDriftCalls |-> 0,
     hasBody |-> TRUE,
     hasVehicle |-> TRUE,
     wheelMeshes |-> 4,
     wheelInfos |-> 4,
     threw |-> FALSE,
     config |-> DefaultCarConfig,
     tickConfig |-> DefaultCarConfig]

(* new Car(model, config) for a model that is null (hasModel false) or in  *)
(* which findWheelMeshes finds wheelMeshes wheels: initializeModel returns *)
(* at once without a model; otherwise initializePhysics creates the body   *)
(* and the vehicle, and initializeWheels then adds the four wheels, or     *)
(* logs an error and adds none when it did not find exactly 4.             *)
NewCarFrom(hasModel, wheelMeshes) ==
    [NewCar EXCEPT !.hasBody = hasModel,
                   !.hasVehicle = hasModel,
                   !.wheelMeshes = IF hasModel THEN wheelMeshes ELSE 0,
                   !.wheelInfos = IF hasModel /\ wheelMeshes = 4 THEN 4 ELSE 0]

(* A speed factor without its floor. *)
SpeedFactorNoFloor(speed) == MAX_SPEED_KMH - speed

(* speedFactor = Math.max(MIN_SPEED_FACTOR, 1 - speed / MAX_SPEED_KMH) in  *)
(* Car.handleAcceleration, in units of 1 / MAX_SPEED_KMH: 1 is             *)
(* MAX_SPEED_KMH and MIN_SPEED_FACTOR is 36.                               *)
SpeedFactor(speed) ==
    Max((MIN_SPEED_FACTOR * MAX_SPEED_KMH) \div 10, MAX_SPEED_KMH - speed)

(* Car.handleAcceleration *)
HandleAcceleration(c, ks, b) ==
    LET speed == GetSpeed(b)
        \* engineForce = maxForce * speedFactor
        engineForce == (MAX_FORCE * SpeedFactor(speed)) \div MAX_SPEED_KMH
        reverseForce == (engineForce * REVERSE_POWER_RATIO) \div 10
        engineBrakeForce == Min(speed * ENGINE_BRAKE_FACTOR * 300, (MAX_FORCE * 3) \div 10)
        sign == Sign(b.velocity[2])
    IN  IF IsKeyPressed(ks, "s")
        THEN [c EXCEPT !.engineForce =
                 [i \in Wheels |-> IF i >= 2 THEN -((reverseForce * 7) \div 10)
                                             ELSE -((reverseForce * 3) \div 10)]]
        ELSE IF IsKeyPressed(ks, "z")
        THEN [c EXCEPT !.engineForce =
                 [i \in Wheels |-> IF i >= 2 THEN (engineForce * 7) \div 10
                                             ELSE (engineForce * 3) \div 10]]
        ELSE [c EXCEPT !.engineForce =
                 [i \in Wheels |-> IF i >= 2 THEN -((engineBrakeForce * sign * 7) \div 10)
                                             ELSE -((engineBrakeForce * sign * 3) \div 10)]]

(* Car.handleBraking *)
HandleBraking(c, ks, b) ==
    LET braked ==
            IF IsKeyPressed(ks, "space")
            THEN [c EXCEPT
                    !.brake = [i \in Wheels |-> IF i >= 2 THEN BRAKE_FORCE * REAR_BRAKE_FORCE
                                                          ELSE 0],
                    !.frictionSlip = [i \in Wheels |-> IF i >= 2 THEN REAR_FRICTION_HANDBRAKE
                                                                 ELSE c.frictionSlip[i]],
                    !.engineForce = [i \in Wheels |-> IF i >= 2 THEN 0 ELSE c.engineForce[i]]]
            ELSE [c EXCEPT
                    !.frictionSlip = [i \in Wheels |-> IF i >= 2 THEN REAR_FRICTION_NORMAL
                                                                 ELSE FRONT_FRICTION],
                    !.brake = [i \in Wheels |-> 0]]
    IN  \* this.isDriftDetected = |leftRear.sideImpulse| > 5 || |rightRear.sideImpulse| > 5
        [braked EXCEPT !.isDriftDetected =
            (Abs(b.sideImpulse[1]) > 5 \/ Abs(b.sideImpulse[2]) > 5)]

(* A steering that turns all four wheels. *)
SteerAllWheels(c, ks, b) ==
    LET speed == GetSpeed(b)
        currentMaxSteer == MAX_STEER * Max(MIN_STEERING_FACTOR, SteeringPow(speed))
        targetSteering == IF IsKeyPressed(ks, "q") THEN currentMaxSteer
                          ELSE IF IsKeyPressed(ks, "d") THEN -currentMaxSteer
                          ELSE 0
    IN  [c EXCEPT !.steering = [i \in Wheels |-> targetSteering]]

(* A steering in which steer-right wins over steer-left. *)
HandleSteeringRightFirst(c, ks, b) ==
    LET speed == GetSpeed(b)
        currentMaxSteer == MAX_STEER * SteeringFactor(speed).value
        targetSteering == IF IsKeyPressed(ks, "d") THEN -currentMaxSteer
                          ELSE IF IsKeyPressed(ks, "q") THEN currentMaxSteer
                          ELSE 0
    IN  [c EXCEPT !.steering = [i \in Wheels |-> IF i < 2 THEN targetSteering ELSE 0]]

(* Car.handleSteering with Car.setSteeringAngle.  The bodies handed to it  *)
(* stay below MAX_STEERING_SPEED_KMH, where the steering factor is a       *)
(* number.                                                                 *)
HandleSteering(c, ks, b) ==
    LET speed == GetSpeed(b)
        speedFactor == SteeringFactor(speed).value
        currentMaxSteer == MAX_STEER * speedFactor
        targetSteering == IF IsKeyPressed(ks, "q") THEN currentMaxSteer
                          ELSE IF IsKeyPressed(ks, "d") THEN -currentMaxSteer
                          ELSE 0
        turnResistance == Abs(targetSteering) * speed * TURN_RESISTANCE_FACTOR
        lateralVelocity == VectorToLocalFrame(b)
        lateralResistance == Abs(lateralVelocity[1]) * LATERAL_RESISTANCE_FACTOR
    IN  [c EXCEPT
           !.angularDamping = BASE_ANGULAR_DAMPING + turnResistance,
           !.linearDamping = IF speed > MIN_SPEED_FOR_LATERAL_RESISTANCE
                             THEN BASE_LINEAR_DAMPING + lateralResistance
                             ELSE c.linearDamping,
           !.steering = [i \in Wheels |-> IF i < 2 THEN targetSteering ELSE 0]]

(* The drift test without the handbrake condition. *)
IsDriftingNoHandbrake(ks, b) ==
    /\ GetSpeed(b) > DRIFT_INITIATION_SPEED
    /\ Abs(b.angularVelocity) > DRIFT_ANGLE_THRESHOLD
    /\ Abs(b.velocity[1]) > 5

(* const isDrifting = ... in Car.updateDriftState *)
IsDrifting(ks, b) ==
    /\ GetSpeed(b) > DRIFT_INITIATION_SPEED
    /\ Abs(b.angularVelocity) > DRIFT_ANGLE_THRESHOLD
    /\ Abs(b.velocity[1]) > 5
    /\ IsKeyPressed(ks, "space")

(* Car.applyDriftPhysics *)
ApplyDriftPhysics(c) ==
    [c EXCEPT
       !.wheelFriction = [i \in Wheels |-> IF i >= 2 THEN REAR_FRICTION_HANDBRAKE
                                                     ELSE c.wheelFriction[i]],
       !.angularDamping = (c.angularDamping * DRIFT_STABILITY_FACTOR) \div 10,
       !.applyDriftCalls = c.applyDriftCalls + 1]

(* Car.restoreNormalPhysics *)
RestoreNormalPhysics(c) ==
    [c EXCEPT
       !.wheelFriction = [i \in Wheels |-> IF i >= 2 THEN REAR_FRICTION_NORMAL
                                                     ELSE c.wheelFriction[i]],
       !.angularDamping = BASE_ANGULAR_DAMPING,
       !.restoreNormalCalls = c.restoreNormalCalls + 1]

(* A lateral friction factor without its floor. *)
LateralFrictionFactorNoFloor(b) ==
    1000 - (Abs(b.velocity[1]) * DRIFT_MOMENTUM_FACTOR) \div GetSpeed(b)

(* lateralFrictionFactor = Math.max(0.3, 1 - (lateralVelocity / speed) *   *)
(* DRIFT_MOMENTUM_FACTOR) in Car.updateDriftPhysics, in 1e-3, with         *)
(* lateralVelocity = |body.velocity.x| and speed = getSpeed() as           *)
(* updateDriftState passes them.                                           *)
LateralFrictionFactor(b) ==
    Max(300, 1000 - (Abs(b.velocity[1]) * DRIFT_MOMENTUM_FACTOR) \div GetSpeed(b))

(* Car.updateDriftPhysics: the rear wheel bodies' friction follows the     *)
(* lateral friction factor.  updateDriftCalls counts the calls.            *)
UpdateDriftPhysics(c, ks, b) ==
    [c EXCEPT
       !.wheelFriction =
           [i \in Wheels |-> IF i >= 2
                             THEN (REAR_FRICTION_HANDBRAKE * LateralFrictionFactor(b)) \div 1000
                             ELSE c.wheelFriction[i]],
       !.updateDriftCalls = c.updateDriftCalls + 1]

(* updateDriftState without its entry branch. *)
UpdateDriftStateNoEntry(c, ks, b) ==
    LET isDrifting == IsDrifting(ks, b)
        moved == IF ~isDrifting /\ c.isDriftDetected
                 THEN RestoreNormalPhysics([c EXCEPT !.isDriftDetected = FALSE])
                 ELSE c
    IN  IF moved.isDriftDetected THEN UpdateDriftPhysics(moved, ks, b) ELSE moved

(* Car.updateDriftState *)
UpdateDriftState(c, ks, b) ==
    LET isDrifting == IsDrifting(ks, b)
        moved == IF isDrifting /\ ~c.isDriftDetected
                 THEN ApplyDriftPhysics([c EXCEPT !.isDriftDetected = TRUE])
                 ELSE IF ~isDrifting /\ c.isDriftDetected
                 THEN RestoreNormalPhysics([c EXCEPT !.isDriftDetected = FALSE])
                 ELSE c
    IN  IF moved.isDriftDetected THEN UpdateDriftPhysics(moved, ks, b) ELSE moved

(* Controls in which handleBraking reads a key map that a disable() has    *)
(* cleared since handleAcceleration read it.                               *)
UpdateVehicleControlsTorn(c, ks, b) ==
    HandleSteering(HandleBraking(HandleAcceleration(c, ks, b), NoKeys, b), ks, b)

(* Controls that brake before they accelerate. *)
UpdateVehicleControlsBrakeFirst(c, ks, b) ==
    HandleSteering(HandleAcceleration(HandleBraking(c, ks, b), ks, b), ks, b)

(* Car.updateVehicleControls.  The handlers run one after the other inside *)
(* the one synchronous call of Car.update; no listener runs in between.    *)
UpdateVehicleControls(c, ks, b) ==
    HandleSteering(HandleBraking(HandleAcceleration(c, ks, b), ks, b), ks, b)

(* An update that does not look for the body and the vehicle. *)
CarUpdateUnguarded(c, ks, b) ==
    LET entry == [c EXCEPT !.wasDrifting = c.isDriftDetected,
                           !.applyDriftCalls = 0,
                           !.restoreNormalCalls = 0,
                           !.updateDriftCalls = 0,
                           !.tickConfig = c.config]
    IN  UpdateDriftState(UpdateVehicleControls(entry, ks, b), ks, b)

(* Car.update(delta) on registers c, reading key map ks and body b.  The   *)
(* three call counters, wasDrifting and tickConfig describe this call      *)
(* alone.                                                                  *)
(* Without a body or a vehicle the call returns at once.  On a vehicle     *)
(* without wheels the call passes that guard and throws a TypeError before *)
(* it changed anything: vehicle.applyEngineForce(value, 2) in              *)
(* handleAcceleration, and at the latest wheelInfos[i].frictionSlip = ...  *)
(* in either branch of handleBraking, write to a wheel info that is        *)
(* undefined.                                                              *)
CarUpdate(c, ks, b) ==
    LET entry == [c EXCEPT !.wasDrifting = c.isDriftDetected,
                           !.applyDriftCalls = 0,
                           !.restoreNormalCalls = 0,
                           !.updateDriftCalls = 0,
                           !.tickConfig = c.config]
    IN  IF ~c.hasVehicle \/ ~c.hasBody THEN entry
        ELSE IF c.wheelInfos < 4 THEN [entry EXCEPT !.threw = TRUE]
        ELSE UpdateDriftState(UpdateVehicleControls(entry, ks, b), ks, b)

(* Car.getSpeed, getPosition and getRotation on a car whose body, if it    *)
(* has one, moves as b, stands at position and is turned by heading.       *)
CarGetSpeed(c, b) == IF ~c.hasBody THEN 0 ELSE GetSpeed(b)
GetPosition(c, position) == IF ~c.hasBody THEN <<0, 0, 0>> ELSE position
GetRotation(c, heading) == IF ~c.hasBody THEN <<0, 0, 0>> ELSE <<0, heading, 0>>

(* The body of the reference run: same velocity and side impulses, no yaw  *)
(* rate, so the drift test never passes.                                   *)
NeverDrifting(b) == [b EXCEPT !.angularVelocity = 0]

(* Scene.updatePhysics: car.update(FIXED_TIMESTEP) on the body state b the *)
(* solver's previous step left, followed by physicsWorld.update.           *)
UpdateWith(bodies) ==
    \E b \in bodies :
        /\ body' = b
        /\ tickKeys' = keys
        /\ car' = CarUpdate(car, keys, b)
        /\ ref' = CarUpdate(ref, keys, NeverDrifting(b))
            /\ UNCHANGED <<keys, isEnabled, nonCarVars>>

(* Car.updateConfig(newConfig) *)
ConfigPartials == {[acceleration |-> 20], [maxSpeed |-> 60, rotationSpeed |-> 20]}

UpdateConfig ==
    \E newConfig \in ConfigPartials :
        /\ car' = [car EXCEPT !.config = MergeConfig(car.config, newConfig)]
        /\ UNCHANGED <<keys, isEnabled, body, tickKeys, ref, nonCarVars>>

CarInit ==
    /\ keys = NoKeys
    /\ isEnabled = TRUE
    /\ body = BodyAtRest
    /\ tickKeys = NoKeys
    /\ car = NewCar
    /\ ref = NewCar

(* A tick of a car that stands still, of a car in motion that keeps its   *)
(* heading, and of a car that drives along each of its four headings.     *)
UpdateAtRest == UpdateWith({BodyAtRest})
Update == UpdateWith(BodyStates)
UpdateDriving == UpdateWith(DriveBodies)

---------------------------------------------------------------------------
(* ThirdPersonCamera (the class Scene constructs: constructor(target),     *)
(* setRenderer, toggleOrbitMode).  Positions in 1e-2 m, smoothness in      *)
(* 1e-2, the target's heading in quarter turns.  OrbitControls.update()    *)
(* is followed without pointer input: it re-aims the camera at its target  *)
(* and leaves the position where it is.                                    *)

(* BASE_HEIGHT = 2.0, BASE_DISTANCE = 6.0 *)
BASE_HEIGHT == 200
BASE_DISTANCE == 600

(* Number of ThirdPersonCamera.update calls the model follows. *)
MaxCameraUpdates == 2

(* Where the car stands and how it is turned when the camera looks *)
TargetPoses == {[position |-> <<0, 100, 0>>, heading |-> 0],
                [position |-> <<400, 100, -300>>, heading |-> 1]}

(* Arguments handed to setSmoothness and setBaseDistance *)
SmoothnessArgs == {-50, 50, 250}
DistanceArgs == {100}

(* Keys the camera's keydown listener sees *)
CameraKeys == {"o", "O", "z"}

(* Vector3.lerp(v, alpha): this += (v - this) * alpha *)
Lerp(from, to, alpha) ==
    [i \in 1..3 |-> from[i] + ((to[i] - from[i]) * alpha) \div 100]

(* A clamp without its upper end. *)
ClampSmoothnessNoCeiling(value) == Max(1, value)

(* Math.max(0.01, Math.min(1, value)) in setSmoothness *)
ClampSmoothness(value) == Max(1, Min(100, value))

(* calculateDesiredPosition(targetPosition, targetRotation) *)
CalculateDesiredPosition(cam, targetPosition, targetRotation) ==
    LET angle == targetRotation[2]
        offsetX == -(Sin(angle) * cam.baseDistance)
        offsetZ == -(Cos(angle) * cam.baseDistance)
    IN  [i \in 1..3 |-> CASE i = 1 -> targetPosition[1] - offsetX
                           [] i = 2 -> targetPosition[2] + cam.baseHeight
                           [] i = 3 -> targetPosition[3] - offsetZ]

(* An update that follows in both modes. *)
FollowAlways(cam) == FALSE

(* if (this.isOrbitMode && this.orbitControls) at the top of update() *)
OrbitBranch(cam) == cam.isOrbitMode /\ cam.hasOrbitControls

(* The camera new ThirdPersonCamera(car) and setRenderer(...) leave, as    *)
(* Scene.initialize calls them in a row: updateCameraPosition has put the  *)
(* camera at the car's position (0, 1, 0) plus the offset                  *)
(* (0, BASE_HEIGHT, BASE_DISTANCE), looking at the car.                    *)
NewCamera ==
    [position |-> [i \in 1..3 |-> CASE i = 1 -> 0
                                     [] i = 2 -> 100 + BASE_HEIGHT
                                     [] i = 3 -> BASE_DISTANCE],
     lookAt |-> [i \in 1..3 |-> CASE i = 1 -> 0 [] i = 2 -> 100 [] i = 3 -> 0],
     desiredPosition |-> [i \in 1..3 |-> 0],
     smoothness |-> 10,
     baseHeight |-> BASE_HEIGHT,
     baseDistance |-> BASE_DISTANCE,
     isOrbitMode |-> FALSE,
     hasOrbitControls |-> TRUE,
     orbitEnabled |-> FALSE,
     orbitTarget |-> [i \in 1..3 |-> 0],
     updates |-> 0,
     lastCall |-> "new",
     prevPosition |-> [i \in 1..3 |-> 0],
     target |-> [position |-> <<0, 100, 0>>, heading |-> 0]]

CameraInit == camera = NewCamera

(* The camera new ThirdPersonCamera(car) leaves before any setRenderer:    *)
(* the keydown listener is registered, orbitControls is still undefined.   *)
NewCameraNoRenderer == [NewCamera EXCEPT !.hasOrbitControls = FALSE]

CameraInitNoRenderer == camera = NewCameraNoRenderer

(* ThirdPersonCamera.update() with the car standing at pose.position and   *)
(* turned by pose.heading.  updates counts the calls, lastCall,            *)
(* prevPosition and target say which branch the latest call took, where    *)
(* the camera was before it and which pose of the car it read.             *)
CameraUpdate ==
    /\ camera.updates < MaxCameraUpdates
    /\ \E pose \in TargetPoses :
         LET targetPosition == [i \in 1..3 |-> GetPosition(car, pose.position)[i]]
             targetRotation == GetRotation(car, pose.heading)
             called == [camera EXCEPT !.updates = camera.updates + 1,
                                      !.prevPosition = camera.position,
                                      !.target = pose]
             desired == CalculateDesiredPosition(camera, targetPosition, targetRotation)
         IN  camera' =
               IF OrbitBranch(camera)
               THEN [called EXCEPT !.orbitTarget = targetPosition,
                                   !.lookAt = targetPosition,
                                   !.lastCall = "orbit"]
               ELSE [called EXCEPT !.desiredPosition = desired,
                                   !.position = Lerp(camera.position, desired,
                                                     camera.smoothness),
                                   !.lookAt = [targetPosition EXCEPT ![2] = @ + 50],
                                   !.lastCall = "follow"]
    /\ UNCHANGED <<sceneVars, carVars, probe, wheelSearch>>

(* toggleOrbitMode() with the car standing at position *)
ToggleOrbitMode(cam, position) ==
    LET toggled == [cam EXCEPT !.isOrbitMode = ~cam.isOrbitMode, !.lastCall = "toggle"]
    IN  IF ~cam.hasOrbitControls THEN toggled
        ELSE IF toggled.isOrbitMode
        THEN [toggled EXCEPT !.orbitEnabled = TRUE, !.orbitTarget = position]
        ELSE [toggled EXCEPT !.orbitEnabled = FALSE]

(* The camera's window 'keydown' listener *)
CameraKeyDown(rawKey) ==
    /\ \E pose \in TargetPoses :
         camera' = IF ToLowerCase(rawKey) = "o"
                   THEN ToggleOrbitMode(camera,
                            [i \in 1..3 |-> GetPosition(car, pose.position)[i]])
                   ELSE [camera EXCEPT !.lastCall = "key"]
    /\ UNCHANGED <<sceneVars, carVars, probe, wheelSearch>>

(* setRenderer(renderer): new OrbitControls, disabled, aimed at the origin *)
SetRenderer ==
    /\ camera' = [camera EXCEPT !.hasOrbitControls = TRUE,
                                !.orbitEnabled = FALSE,
                                !.orbitTarget = [i \in 1..3 |-> 0],
                                !.lastCall = "setRenderer"]
    /\ UNCHANGED <<sceneVars, carVars, probe, wheelSearch>>

(* setSmoothness(value) *)
SetSmoothness ==
    /\ \E value \in SmoothnessArgs :
         camera' = [camera EXCEPT !.smoothness = ClampSmoothness(value),
                                  !.lastCall = "setter"]
    /\ UNCHANGED <<sceneVars, carVars, probe, wheelSearch>>

(* setBaseDistance(distance): BASE_DISTANCE = Math.max(3, distance) *)
SetBaseDistance ==
    /\ \E distance \in DistanceArgs :
         camera' = [camera EXCEPT !.baseDistance = Max(300, distance),
                                  !.lastCall = "setter"]
    /\ UNCHANGED <<sceneVars, carVars, probe, wheelSearch>>

CameraNext ==
    \/ CameraUpdate
    \/ \E k \in CameraKeys : CameraKeyDown(k)
    \/ SetRenderer
    \/ SetSmoothness
    \/ SetBaseDistance

---------------------------------------------------------------------------
(* The engine speed factor and the steering factor on their own: a speed   *)
(* is handed to them, as handleAcceleration and handleSteering hand them   *)
(* the result of getSpeed().                                               *)

(* Largest speed handed to the factors, in m/s. *)
MaxProbeSpeed == 400

ProbeSpeeds == 0..MaxProbeSpeed

(* What handleAcceleration and handleSteering compute from a speed: the    *)
(* engine speed factor, the steering factor, and the steering angle        *)
(* maxSteer * speedFactor that a held 'q' puts on the front wheels (in     *)
(* 1e-5 rad; NaN when the factor is).                                      *)
ProbeOf(speed) ==
    [speed |-> speed,
     speedFactor |-> SpeedFactor(speed),
     steeringFactor |-> SteeringFactor(speed),
     steering |-> MAX_STEER * SteeringFactor(speed).value]

ProbeInit == probe = ProbeOf(0)

ProbeSpeed ==
    /\ \E speed \in ProbeSpeeds : probe' = ProbeOf(speed)
    /\ UNCHANGED <<sceneVars, carVars, camera, wheelSearch>>

ProbeNext == ProbeSpeed

---------------------------------------------------------------------------
(* Car.findWheelMeshes on its own: a model is handed to it, as             *)
(* initializeWheels hands it the loaded model.  A model is the sequence of *)
(* its wheel nodes in traversal order; a node has a name and a position    *)
(* (x, z), in 0.1 m.  A wheel group is named by the index of its node, 0   *)
(* standing for null.                                                      *)

(* Lateral and forward coordinates of the wheel nodes: two sides, a rear   *)
(* axle and two front positions 0.1 m apart.                               *)
WheelXs == {-8, 8}
WheelZs == {-15, 15, 16}

(* How a model names its wheel nodes: all 'wheel', all 'Wheel', or each    *)
(* after its place.                                                        *)
NameStyles == {"lower", "capital", "tagged"}

TaggedNames == <<"wheel_front_left", "wheel_front_right", "wheel_back_left", "wheel_back_right">>

NodeName(style, i) ==
    CASE style = "lower" -> "wheel"
      [] style = "capital" -> "Wheel"
      [] style = "tagged" -> TaggedNames[i]

WheelModels ==
    {[i \in 1..4 |-> [name |-> NodeName(style, i), x |-> xs[i], z |-> zs[i]]] :
        style \in NameStyles, xs \in [1..4 -> WheelXs], zs \in [1..4 -> WheelZs]}

(* child.name.toLowerCase() *)
ToLowerName(name) == IF name = "Wheel" THEN "wheel" ELSE name

(* name.includes('wheel') || name.includes('roue'), case-sensitive *)
IncludesWheel(name) == name # "Wheel"

(* name.includes('front') || name.includes('avant') and the like *)
IncludesFront(name) == name \in {"wheel_front_left", "wheel_front_right"}
IncludesBack(name) == name \in {"wheel_back_left", "wheel_back_right"}
IncludesLeft(name) == name \in {"wheel_front_left", "wheel_back_left"}
IncludesRight(name) == name \in {"wheel_front_right", "wheel_back_right"}

(* The slot (1 frontLeft, 2 frontRight, 3 backLeft, 4 backRight) the first *)
(* traversal assigns a node to, 0 for none.                                *)
NamedSlot(node) ==
    LET name == ToLowerName(node.name)
    IN  IF ~IncludesWheel(name) THEN 0
        ELSE IF IncludesFront(name)
        THEN (IF IncludesLeft(name) THEN 1 ELSE IF IncludesRight(name) THEN 2 ELSE 0)
        ELSE IF IncludesBack(name)
        THEN (IF IncludesLeft(name) THEN 3 ELSE IF IncludesRight(name) THEN 4 ELSE 0)
        ELSE 0

(* The slots after the first traversal: a later node overwrites an earlier *)
(* one in the same slot.                                                   *)
NamedSlots(nodes) ==
    [slot \in 1..4 |->
        LET found == {i \in DOMAIN nodes : NamedSlot(nodes[i]) = slot}
        IN  IF found = {} THEN 0 ELSE CHOOSE i \in found : \A j \in found : j <= i]

(* The comparator handed to wheels.sort: by z, larger first, and by x,     *)
(* smaller first, where the z are equal.                                   *)
CompareWheels(a, b) ==
    IF a.z # b.z THEN b.z - a.z ELSE a.x - b.x

(* wheels.sort(compare): a stable sort, here by insertion.  order is a     *)
(* sequence of node indices.                                               *)
InsertWheel(nodes, order, i) ==
    LET after == {k \in 1..Len(order) : CompareWheels(nodes[order[k]], nodes[i]) > 0}
        at == IF after = {} THEN Len(order) + 1
              ELSE CHOOSE k \in after : \A j \in after : k <= j
    IN  SubSeq(order, 1, at - 1) \o <<i>> \o SubSeq(order, at, Len(order))

RECURSIVE SortWheels(_, _)
SortWheels(nodes, order) ==
    IF order = <<>> THEN <<>>
    ELSE InsertWheel(nodes, SortWheels(nodes, SubSeq(order, 1, Len(order) - 1)),
                     order[Len(order)])

(* The indices of the nodes the second traversal collects *)
RECURSIVE CollectWheels(_, _)
CollectWheels(nodes, i) ==
    IF i > Len(nodes) THEN <<>>
    ELSE (IF IncludesWheel(nodes[i].name) THEN <<i>> ELSE <<>>) \o CollectWheels(nodes, i + 1)

(* Car.findWheelMeshes(model) *)
FindWheelMeshes(nodes) ==
    LET named == NamedSlots(nodes)
        wheels == CollectWheels(nodes, 1)
        slots == IF \A slot \in 1..4 : named[slot] = 0
                 THEN (IF Len(wheels) = 4 THEN SortWheels(nodes, wheels) ELSE named)
                 ELSE named
        found == SelectSeq(slots, LAMBDA i : i # 0)
    IN  [k \in 1..Len(found) |->
            [mesh |-> found[k],
             isFront |-> \E slot \in 1..2 : slots[slot] = found[k],
             x |-> nodes[found[k]].x,
             z |-> nodes[found[k]].z]]

(* A model handed to new Car, before initializeWheels has searched it *)
Unsearched(nodes) == [nodes |-> nodes, wheelGroups |-> <<>>, searched |-> FALSE]

WheelInit == wheelSearch = Unsearched(<<>>)

(* Any model of WheelModels *)
WheelInitAny == wheelSearch \in {Unsearched(nodes) : nodes \in WheelModels}

(* const wheelMeshes = this.findWheelMeshes(model) in initializeWheels,    *)
(* which the constructor runs once.                                        *)
FindWheels ==
    /\ ~wheelSearch.searched
    /\ wheelSearch' = [nodes |-> wheelSearch.nodes,
                       wheelGroups |-> FindWheelMeshes(wheelSearch.nodes),
                       searched |-> TRUE]
    /\ UNCHANGED <<sceneVars, carVars, camera, probe>>

WheelsNext == FindWheels

(* The keys of the driving runs: every control key. *)
DriveKeys == {"z", "s", "q", "d", " "}

(* The keys of the runs that retune the car: throttle and steer left. *)
ConfigKeys == {"z", "q"}

(* The keys of the runs over every built car: handbrake and throttle. *)
BuiltKeys == {" ", "z"}

(* The cars new Car(model, config) can leave: without a model, and with a  *)
(* model in which 0 to 4 wheels are found.                                 *)
CarsBuilt == {NewCarFrom(hasModel, wheelMeshes) : hasModel \in BOOLEAN, wheelMeshes \in 0..4}

CarInitFrom(cars) ==
    /\ keys = NoKeys
    /\ isEnabled = TRUE
    /\ body = BodyAtRest
    /\ tickKeys = NoKeys
    /\ car \in cars
    /\ ref = car

(* The keys pressed in the drift runs: handbrake, steer left, throttle. *)
DriftKeys == {" ", "q", "z", "Z"}

ControlsNext ==
    \/ \E k \in RawKeys : KeyDown(k)
    \/ \E k \in RawKeys : KeyUp(k)
    \/ Enable
    \/ Disable
    \/ UpdateAtRest

DriftNext ==
    \/ \E k \in DriftKeys : KeyDown(k)
    \/ \E k \in DriftKeys : KeyUp(k)
    \/ Enable
    \/ Disable
    \/ Update

DriveNext ==
    \/ \E k \in DriveKeys : KeyDown(k)
    \/ \E k \in DriveKeys : KeyUp(k)
    \/ UpdateDriving

BuiltNext ==
    \/ \E k \in BuiltKeys : KeyDown(k)
    \/ \E k \in BuiltKeys : KeyUp(k)
    \/ UpdateDriving
    \/ CameraUpdate

ConfigNext ==
    \/ \E k \in ConfigKeys : KeyDown(k)
    \/ \E k \in ConfigKeys : KeyUp(k)
    \/ UpdateConfig
    \/ UpdateAtRest

---------------------------------------------------------------------------
(* The scheduler on its own; the controls with every key and a car that   *)
(* stands still; the car in motion with the drift keys.                    *)

Init == SceneInit /\ CarInit /\ CameraInit /\ ProbeInit /\ WheelInit

(* Construction up to new ThirdPersonCamera(car), setRenderer not yet      *)
(* called.                                                                 *)
InitNoRenderer == SceneInit /\ CarInit /\ CameraInitNoRenderer /\ ProbeInit /\ WheelInit

(* The loader hands any model of WheelModels to new Car. *)
InitWheels == SceneInit /\ CarInit /\ CameraInit /\ ProbeInit /\ WheelInitAny

(* Construction from any model the loader may hand to new Car. *)
InitBuilt == SceneInit /\ CarInitFrom(CarsBuilt) /\ CameraInit /\ ProbeInit /\ WheelInit

SpecScene == Init /\ [][SceneNext]_vars

SpecControls == Init /\ [][ControlsNext]_vars

SpecDrift == Init /\ [][DriftNext]_vars

(* The car driving along every heading, with every control key. *)
SpecDrive == Init /\ [][DriveNext]_vars

(* The car retuned at run time. *)
SpecConfig == Init /\ [][ConfigNext]_vars

(* Cars built from every model, ticked and rendered. *)
SpecBuilt == InitBuilt /\ [][BuiltNext]_vars

(* The chase camera. *)
SpecCamera == Init /\ [][CameraNext]_vars

(* The chase camera as a class: key presses, setRenderer and update calls  *)
(* in any order from the constructor on.                                   *)
SpecCameraClass == InitNoRenderer /\ [][CameraNext]_vars

(* The engine speed factor over the speeds 0..MaxProbeSpeed. *)
SpecSpeedFactor == Init /\ [][ProbeNext]_vars

(* The wheel search over every model of WheelModels. *)
SpecWheels == InitWheels /\ [][WheelsNext]_vars

---------------------------------------------------------------------------
(* Properties of the scheduler, checked under SpecScene.                   *)

CeilDiv(a, b) == (a + b - 1) \div b

(* C1: after the fixed-step loop of every frame the accumulator satisfies  *)
(* 0 <= physicsAccumulator < FIXED_TIMESTEP, so alpha =                    *)
(* physicsAccumulator / FIXED_TIMESTEP lies in [0, 1).                     *)
C1_AccumulatorInRange ==
    /\ 0 <= physicsAccumulator
    /\ physicsAccumulator < FIXED_TIMESTEP

C1_Witness ==
    /\ renders >= 2
    /\ physicsAccumulator > 0
    /\ physicsSteps >= 1

(* C2: a frame whose measured delta is at least MAX_DELTA (a 5 s stall     *)
(* included) runs exactly the updatePhysics calls a frame of MAX_DELTA     *)
(* would run from the same accumulator, and never more than                *)
(* ceil(MAX_DELTA / FIXED_TIMESTEP).                                       *)
C2_StallIsClamped ==
    [][(renders' = renders + 1 /\ lastDelta' >= MAX_DELTA)
         => /\ stepsInFrame' = FixedStepLoop(physicsAccumulator + MAX_DELTA, 0)[2]
            /\ stepsInFrame' <= CeilDiv(MAX_DELTA, FIXED_TIMESTEP)
            /\ physicsSteps' = physicsSteps + stepsInFrame']_vars

C2_Witness ==
    /\ lastDelta = 1200
    /\ stepsInFrame = 1
    /\ physicsAccumulator > 0

(* C3 as stated: the number of fixed steps executed over a span of         *)
(* wall-clock time is the one that span holds, floor(span /                *)
(* FIXED_TIMESTEP), however the span is divided into frames.               *)
C3_FramerateIndependent ==
    physicsSteps = lastTime \div FIXED_TIMESTEP

(* C3 amended: as long as every measured frame delta lies in               *)
(* [MIN_DELTA, MAX_DELTA], the number of fixed steps executed is           *)
(* floor(span / FIXED_TIMESTEP) however the span is divided into frames.   *)
C3_FramerateIndependentInRange ==
    allInRange => physicsSteps = lastTime \div FIXED_TIMESTEP

C3_Witness ==
    /\ allInRange
    /\ renders >= 3
    /\ lastDelta = 3
    /\ physicsSteps = 2
    /\ physicsAccumulator = 1

(* C4: once dispose() has cleared isInitialized of a running scene, no     *)
(* later step executes a physics step, a camera update or a render, or     *)
(* requests an animation frame: the queued gameLoop callback returns at    *)
(* the gate.                                                               *)
C4_NoStepAfterDispose ==
    [][disposedAt = "loaded"
         => /\ physicsSteps' = physicsSteps
            /\ renders' = renders
            /\ physicsAccumulator' = physicsAccumulator
            /\ lastTime' = lastTime
            /\ ~isInitialized'
            /\ (rafPending' => rafPending)]_vars

C4_Witness ==
    /\ disposedAt = "loaded"
    /\ renders >= 1
    /\ ~rafPending

(* C5: when dispose() was called while an asset load was in flight, the    *)
(* load callbacks that run afterwards discard their result: isInitialized  *)
(* stays false, the car is not added to the physics world and gameLoop is  *)
(* not started.                                                            *)
C5_LoadAfterDisposeDiscarded ==
    disposedAt \in {"loadingCar", "loadingTrack"}
        => /\ ~isInitialized
           /\ ~carInWorld
           /\ renders = 0
           /\ ~rafPending

---------------------------------------------------------------------------
(* Properties of CarControls, checked under SpecControls.                  *)

AllKeyNames == RawKeys \cup ControlKeys

(* C6: disable() clears every key flag at once, key-down events received   *)
(* while disabled set no flag, and a flag only turns true in a key-down    *)
(* event handled while enabled, so no key reads pressed after a            *)
(* disable/enable cycle until a new key-down arrives.                      *)
C6_DisableClearsKeys ==
    [][/\ ~isEnabled' => \A k \in AllKeyNames : ~IsKeyPressed(keys', k)
       /\ \A k \in ControlKeys :
            (~keys[k] /\ keys'[k])
                => /\ isEnabled
                   /\ \E r \in RawKeys : NormalizeKey(r) = k /\ KeyDown(r)]_vars

C6_Witness ==
    /\ ~isEnabled
    /\ tickKeys["z"]
    /\ tickKeys["space"]
    /\ \A k \in AllKeyNames : ~IsKeyPressed(keys, k)

---------------------------------------------------------------------------
(* Properties of the drift state, checked under SpecDrift.  body and       *)
(* tickKeys are what the latest Car.update read, car what it left.         *)

SpeedSquared == body.velocity[1] * body.velocity[1] + body.velocity[2] * body.velocity[2]

FourConditions ==
    /\ SpeedSquared > DRIFT_INITIATION_SPEED * DRIFT_INITIATION_SPEED
    /\ Abs(body.angularVelocity) > DRIFT_ANGLE_THRESHOLD
    /\ Abs(body.velocity[1]) > 5
    /\ tickKeys["space"]

(* C7: at the end of every Car.update the car is Drifting exactly when     *)
(* speed > DRIFT_INITIATION_SPEED, |angularVelocity.y| >                   *)
(* DRIFT_ANGLE_THRESHOLD, lateralVelocity > 5 and the handbrake key all    *)
(* hold in that tick; one false condition ends the tick Normal.            *)
C7_DriftIffFourConditions ==
    car.isDriftDetected <=> FourConditions

C7_Witness ==
    /\ ~car.isDriftDetected
    /\ car.wasDrifting
    /\ ~tickKeys["space"]
    /\ SpeedSquared > DRIFT_INITIATION_SPEED * DRIFT_INITIATION_SPEED
    /\ Abs(body.angularVelocity) > DRIFT_ANGLE_THRESHOLD
    /\ Abs(body.velocity[1]) > 5

(* C8 as stated: a tick at speed = 40 with the handbrake pressed, steering *)
(* hard left and the yaw rate above the threshold ends Drifting.           *)
C8_DriftAtSpeed40 ==
    (/\ SpeedSquared = 40 * 40
     /\ tickKeys["space"]
     /\ tickKeys["q"]
     /\ Abs(body.angularVelocity) > DRIFT_ANGLE_THRESHOLD)
        => car.isDriftDetected

(* C8 amended: a tick at a speed strictly above 40 with a lateral velocity *)
(* above 5, the handbrake pressed, steering hard left and the yaw rate     *)
(* above the threshold ends Drifting; a tick that reads the handbrake      *)
(* released ends Normal.                                                   *)
C8_DriftAboveSpeed40 ==
    /\ (/\ SpeedSquared > 40 * 40
        /\ Abs(body.velocity[1]) > 5
        /\ tickKeys["space"]
        /\ tickKeys["q"]
        /\ Abs(body.angularVelocity) > DRIFT_ANGLE_THRESHOLD)
           => car.isDriftDetected
    /\ ~tickKeys["space"] => ~car.isDriftDetected

C8_Witness ==
    /\ ~car.isDriftDetected
    /\ car.wasDrifting
    /\ ~tickKeys["space"]
    /\ tickKeys["q"]
    /\ body.sideImpulse # <<0, 0>>

(* C9: applyDriftPhysics runs exactly once in a tick where the             *)
(* four-condition predicate turned true, restoreNormalPhysics exactly once *)
(* in a tick where it turned false, and neither runs in a tick where the   *)
(* predicate did not change, whatever the rear wheels' sideImpulse.        *)
C9_HooksEdgeTriggered ==
    /\ car.applyDriftCalls = IF ~car.wasDrifting /\ FourConditions THEN 1 ELSE 0
    /\ car.restoreNormalCalls = IF car.wasDrifting /\ ~FourConditions THEN 1 ELSE 0

(* C10: whenever the car is not Drifting, every wheel's frictionSlip and   *)
(* every wheel body's material friction equal those of the run with the    *)
(* same key inputs in which the car never drifted.                         *)
C10_FrictionAsNeverDrifted ==
    ~car.isDriftDetected
        => /\ \A i \in Wheels : car.frictionSlip[i] = ref.frictionSlip[i]
           /\ \A i \in Wheels : car.wheelFriction[i] = ref.wheelFriction[i]

---------------------------------------------------------------------------
(* Properties of the car's dampings, steering, brakes and engine force.    *)

(* C11: in every reachable state, right after construction, after any      *)
(* Car.update and during Drifting, body.angularDamping >=                  *)
(* BASE_ANGULAR_DAMPING and body.linearDamping >= BASE_LINEAR_DAMPING.     *)
C11_DampingAtLeastBase ==
    /\ car.angularDamping >= BASE_ANGULAR_DAMPING
    /\ car.linearDamping >= BASE_LINEAR_DAMPING

(* C12: after any Car.update, for every combination of pressed keys, every *)
(* speed and both drift states, the steering value of rear wheels 2 and 3  *)
(* is exactly 0 and front wheels 0 and 1 carry the same steering value.    *)
C12_RearWheelsNeverSteer ==
    /\ car.steering[2] = 0
    /\ car.steering[3] = 0
    /\ car.steering[0] = car.steering[1]

C12_Witness ==
    /\ car.isDriftDetected
    /\ tickKeys["d"]
    /\ tickKeys["z"]
    /\ car.steering[0] < 0
    /\ car.steering[2] = 0

---------------------------------------------------------------------------
(* Properties of the engine speed factor, checked under SpecSpeedFactor.   *)

(* C13: for every speed s >= 0 the speed factor max(MIN_SPEED_FACTOR,      *)
(* 1 - s / MAX_SPEED_KMH) lies in [MIN_SPEED_FACTOR, 1], and for any two   *)
(* speeds the factor of the larger one is not larger.                      *)
C13_SpeedFactorBoundedMonotone ==
    [][/\ probe'.speedFactor >= (MIN_SPEED_FACTOR * MAX_SPEED_KMH) \div 10
       /\ probe'.speedFactor <= MAX_SPEED_KMH
       /\ probe'.speed >= probe.speed => probe'.speedFactor <= probe.speedFactor]_vars

C13_Witness ==
    /\ probe.speed > MAX_SPEED_KMH
    /\ probe.speedFactor = (MIN_SPEED_FACTOR * MAX_SPEED_KMH) \div 10

---------------------------------------------------------------------------
(* Properties of the chase camera, checked under SpecCamera.               *)

(* A call of update() that took the Following branch. *)
FollowingUpdate ==
    /\ camera'.updates = camera.updates + 1
    /\ camera'.lastCall = "follow"

(* C14: the smoothness stays within [0.01, 1] whatever setSmoothness is    *)
(* handed, and the camera position after an update() in Following mode is  *)
(* a point of the segment from its pre-update position to the desired      *)
(* position computed in that update; with smoothness 1 it is the desired   *)
(* position itself.                                                        *)
C14_LerpStaysOnSegment ==
    [][/\ camera'.smoothness \in 1..100
       /\ FollowingUpdate =>
            /\ \E t \in 0..100 :
                 camera'.position = Lerp(camera.position, camera'.desiredPosition, t)
            /\ \A i \in 1..3 :
                 \/ /\ camera.position[i] <= camera'.position[i]
                    /\ camera'.position[i] <= camera'.desiredPosition[i]
                 \/ /\ camera'.desiredPosition[i] <= camera'.position[i]
                    /\ camera'.position[i] <= camera.position[i]
            /\ camera.smoothness = 100 => camera'.position = camera'.desiredPosition]_vars

C14_Witness ==
    /\ camera.lastCall = "follow"
    /\ camera.updates = 2
    /\ camera.smoothness = 100
    /\ camera.position = camera.desiredPosition
    /\ camera.position # camera.prevPosition
    /\ camera.baseDistance = 300

---------------------------------------------------------------------------
(* Properties of cars built from every model, checked under SpecBuilt.     *)

(* The car's registers without the fields that describe the latest call. *)
Registers(c) ==
    [c EXCEPT !.wasDrifting = FALSE,
              !.applyDriftCalls = 0,
              !.restoreNormalCalls = 0,
              !.tickConfig = DefaultCarConfig]

(* C15: on a car without a physics body or without a raycast vehicle,      *)
(* Car.update does not throw and changes no engine force, brake, steering, *)
(* friction, damping or drift flag, and getSpeed, getPosition and          *)
(* getRotation return zero values: the camera that follows such a car sees *)
(* it at the origin with no rotation.                                      *)
C15_UpdateWithoutBodyIsNoOp ==
    /\ [][(~car.hasBody \/ ~car.hasVehicle)
            => /\ Registers(car') = Registers(car)
               /\ ~car'.threw]_vars
    /\ [](~car.hasBody
            => /\ CarGetSpeed(car, body) = 0
               /\ camera.lastCall = "follow"
                    => /\ camera.lookAt = <<0, 50, 0>>
                       /\ camera.desiredPosition = <<0, BASE_HEIGHT, BASE_DISTANCE>>)

C15_Witness ==
    /\ ~car.hasBody
    /\ ~car.hasVehicle
    /\ tickKeys["z"]
    /\ tickKeys["space"]
    /\ body.velocity = <<30, 40>>
    /\ camera.lastCall = "follow"
    /\ car.engineForce[2] = 0
    /\ ~car.threw

(* C16: when wheel discovery finds a number of wheels other than 4, no     *)
(* wheel is added and the car is left without a physics body, so that      *)
(* every later Car.update is a no-op that does not throw.                  *)
C16_WrongWheelCountLeavesNoBody ==
    car.wheelMeshes # 4
        => /\ car.wheelInfos = 0
           /\ ~car.hasBody
           /\ ~car.threw

(* C17: after a Car.update that read the handbrake held, the rear wheels   *)
(* carry the handbrake brake torque and frictionSlip =                     *)
(* REAR_FRICTION_HANDBRAKE while the front wheels have brake 0 and         *)
(* frictionSlip = FRONT_FRICTION; after one that read it released, all     *)
(* four brakes are 0, front frictionSlip = FRONT_FRICTION and rear         *)
(* frictionSlip = REAR_FRICTION_NORMAL.                                    *)
C17_HandbrakeWheels ==
    [][Update =>
         IF tickKeys'["space"]
         THEN /\ \A i \in {2, 3} : /\ car'.brake[i] = BRAKE_FORCE * REAR_BRAKE_FORCE
                                   /\ car'.frictionSlip[i] = REAR_FRICTION_HANDBRAKE
              /\ \A i \in {0, 1} : /\ car'.brake[i] = 0
                                   /\ car'.frictionSlip[i] = FRONT_FRICTION
         ELSE /\ \A i \in Wheels : car'.brake[i] = 0
              /\ \A i \in {0, 1} : car'.frictionSlip[i] = FRONT_FRICTION
              /\ \A i \in {2, 3} : car'.frictionSlip[i] = REAR_FRICTION_NORMAL]_vars

(* C18: isOrbitMode changes only in a key-down of the 'o' key, never in    *)
(* update(), setRenderer or a setter; the toggle leaves the camera where   *)
(* Following last put it; and an update() while Orbiting takes the orbit   *)
(* branch alone: no lerp, no new desired position, no lookAt of the        *)
(* Following branch.                                                       *)
C18_ModeChangesOnlyOnToggle ==
    [][/\ camera'.isOrbitMode # camera.isOrbitMode
            => /\ \E k \in {"o", "O"} : CameraKeyDown(k)
               /\ camera'.lastCall = "toggle"
               /\ camera'.position = camera.position
       /\ (camera'.updates = camera.updates + 1 /\ camera.isOrbitMode)
            => /\ camera'.lastCall = "orbit"
               /\ camera'.position = camera.position
               /\ camera'.desiredPosition = camera.desiredPosition
               /\ camera'.lookAt = camera'.orbitTarget]_vars

C18_Witness ==
    /\ camera.isOrbitMode
    /\ camera.lastCall = "orbit"
    /\ camera.updates = 2
    /\ camera.position = camera.prevPosition
    /\ camera.position # NewCamera.position
    /\ camera.lookAt = <<400, 100, -300>>

---------------------------------------------------------------------------
(* Properties of run-time tuning, checked under SpecConfig.  ref is the    *)
(* car that was never retuned and is ticked with the same keys.            *)

(* C19: a physics tick that follows Car.updateConfig(partial) uses the     *)
(* updated values: with the throttle held, a changed acceleration changes  *)
(* the engine force the tick sets, and with a steering key held a changed  *)
(* rotationSpeed changes the steering angle it sets, compared with the     *)
(* same tick of the car that kept the previous configuration.              *)
C19_TicksUseUpdatedConfig ==
    /\ (car.tickConfig.acceleration # ref.tickConfig.acceleration /\ tickKeys["z"])
          => car.engineForce # ref.engineForce
    /\ (car.tickConfig.rotationSpeed # ref.tickConfig.rotationSpeed /\ tickKeys["q"])
          => car.steering # ref.steering

---------------------------------------------------------------------------
(* Properties of coasting, checked under SpecDrive.  A positive engine     *)
(* force drives the car along its own forward axis, the way the throttle   *)
(* key does.                                                               *)

(* min(speed * ENGINE_BRAKE_FACTOR, 0.3 * maxForce) for the body of the    *)
(* latest tick                                                             *)
EngineBrakeMagnitude ==
    Min(GetSpeed(body) * ENGINE_BRAKE_FACTOR * 300, (MAX_FORCE * 3) \div 10)

(* C20: after a tick that read neither throttle key pressed, the engine    *)
(* force on every wheel opposes the car's motion along its own forward     *)
(* axis, for every heading, and, the handbrake aside, has magnitude 0.7    *)
(* (rear) and 0.3 (front) of min(speed * ENGINE_BRAKE_FACTOR,              *)
(* 0.3 * maxForce).                                                        *)
C20_EngineBrakeOpposesTravel ==
    (~tickKeys["z"] /\ ~tickKeys["s"])
        => /\ \A i \in Wheels :
                car.engineForce[i] * Sign(VectorToLocalFrame(body)[2]) <= 0
           /\ ~tickKeys["space"]
                => \A i \in Wheels :
                     Abs(car.engineForce[i]) =
                         (EngineBrakeMagnitude * (IF i >= 2 THEN 7 ELSE 3)) \div 10

---------------------------------------------------------------------------
(* Properties of the dampings and of the drift exit, checked under         *)
(* SpecDrift.                                                              *)

(* C21: after a Car.update that read no steering key pressed,              *)
(* body.angularDamping is BASE_ANGULAR_DAMPING, and after one that read a  *)
(* speed at or below MIN_SPEED_FOR_LATERAL_RESISTANCE, body.linearDamping  *)
(* is BASE_LINEAR_DAMPING.                                                 *)
C21_DampingResetsToBase ==
    [][Update =>
         /\ (~tickKeys'["q"] /\ ~tickKeys'["d"])
               => car'.angularDamping = BASE_ANGULAR_DAMPING
         /\ GetSpeed(body') <= MIN_SPEED_FOR_LATERAL_RESISTANCE
               => car'.linearDamping = BASE_LINEAR_DAMPING]_vars


(* C22: on the tick the vehicle leaves Drifting (it was drifting when      *)
(* Car.update began and is not when it returns), the rear wheels' friction *)
(* is REAR_FRICTION_NORMAL (read here as either the wheel's frictionSlip   *)
(* or its body material's friction), the front wheels' frictionSlip is     *)
(* FRONT_FRICTION and body.angularDamping is BASE_ANGULAR_DAMPING.         *)
C22_ExitRestoresNormal ==
    (car.wasDrifting /\ ~car.isDriftDetected) =>
        /\ \A i \in {2, 3} : \/ car.frictionSlip[i] = REAR_FRICTION_NORMAL
                             \/ car.wheelFriction[i] = REAR_FRICTION_NORMAL
        /\ \A i \in {0, 1} : car.frictionSlip[i] = FRONT_FRICTION
        /\ car.angularDamping = BASE_ANGULAR_DAMPING


---------------------------------------------------------------------------
(* Property of the steering factor, checked under SpecSpeedFactor.         *)

(* C23: for every speed the steering factor is a number within             *)
(* [MIN_STEERING_FACTOR, 1], and the steering angle a held steering key    *)
(* puts on the front wheels lies between MIN_STEERING_FACTOR * MAX_STEER   *)
(* and MAX_STEER in magnitude.                                             *)
C23_SteeringFactorDefined ==
    /\ ~probe.steeringFactor.isNaN
    /\ probe.steeringFactor.value >= MIN_STEERING_FACTOR
    /\ probe.steeringFactor.value <= 10000
    /\ Abs(probe.steering) >= MIN_STEERING_FACTOR * MAX_STEER
    /\ Abs(probe.steering) <= 10000 * MAX_STEER


---------------------------------------------------------------------------
(* Property of the lateral friction factor, checked under SpecDrift.       *)

(* C24: updateDriftPhysics runs exactly in the ticks that end in Drifting; *)
(* there the speed is above DRIFT_INITIATION_SPEED, so the division by it  *)
(* is defined, the lateral friction factor is within [0.3, 1] and the rear *)
(* wheel friction it writes lies between 0.3 * REAR_FRICTION_HANDBRAKE and *)
(* REAR_FRICTION_HANDBRAKE.                                                *)
C24_LateralFactorInRange ==
    /\ car.updateDriftCalls = (IF car.isDriftDetected THEN 1 ELSE 0)
    /\ car.isDriftDetected =>
          /\ GetSpeed(body) > DRIFT_INITIATION_SPEED
          /\ LateralFrictionFactor(body) >= 300
          /\ LateralFrictionFactor(body) <= 1000
          /\ \A i \in {2, 3} :
                /\ car.wheelFriction[i] >= (3 * REAR_FRICTION_HANDBRAKE) \div 10
                /\ car.wheelFriction[i] <= REAR_FRICTION_HANDBRAKE

(* C24 witness: a drifting tick in which the factor sits on its floor, and *)
(* the rear wheel friction at 0.3 * REAR_FRICTION_HANDBRAKE.               *)
C24_Witness ==
    /\ car.isDriftDetected
    /\ car.updateDriftCalls = 1
    /\ LateralFrictionFactorNoFloor(body) < 300
    /\ car.wheelFriction[2] = (3 * REAR_FRICTION_HANDBRAKE) \div 10


---------------------------------------------------------------------------
(* Property of the desired camera position, checked under SpecCamera.      *)

(* C25: after an update() in Following mode the desired camera position is *)
(* vehiclePosition - forward(yaw) * BASE_DISTANCE + up * BASE_HEIGHT, with *)
(* forward(yaw) = (sin yaw, 0, cos yaw), for the pose of the vehicle the   *)
(* update read and the camera's base distance and height.                  *)
C25_DesiredPositionBehind ==
    camera.lastCall = "follow" =>
        /\ camera.desiredPosition[1] =
              camera.target.position[1] - Sin(camera.target.heading) * camera.baseDistance
        /\ camera.desiredPosition[2] = camera.target.position[2] + camera.baseHeight
        /\ camera.desiredPosition[3] =
              camera.target.position[3] - Cos(camera.target.heading) * camera.baseDistance


---------------------------------------------------------------------------
(* Property of the wheel search, checked under SpecWheels.                 *)

(* The two nodes that lie ahead of the other two, if the placement has     *)
(* such a pair; the empty set otherwise.                                   *)
FrontPair(nodes) ==
    LET pairs == {F \in SUBSET (1..4) :
                     /\ Cardinality(F) = 2
                     /\ \A i \in F : \A j \in (1..4) \ F : nodes[i].z > nodes[j].z}
    IN  IF pairs = {} THEN {} ELSE CHOOSE F \in pairs : TRUE

(* Four wheel nodes without front/back/left/right in their names, two of   *)
(* them ahead of the other two, the two of each axle on different sides.   *)
UntaggedCarPlacement(nodes) ==
    /\ Len(nodes) = 4
    /\ \A i \in 1..4 : NamedSlot(nodes[i]) = 0
    /\ FrontPair(nodes) # {}
    /\ \A i, j \in FrontPair(nodes) : i # j => nodes[i].x # nodes[j].x
    /\ \A i, j \in (1..4) \ FrontPair(nodes) : i # j => nodes[i].x # nodes[j].x

(* C26: for every such placement findWheelMeshes returns four groups, the  *)
(* two nodes with the larger z at indices 0-1 and marked front, the other  *)
(* two at indices 2-3, and within each axle the node with the smaller x    *)
(* first.                                                                  *)
C26_WheelsAssignedByPosition ==
    (wheelSearch.searched /\ UntaggedCarPlacement(wheelSearch.nodes)) =>
        LET groups == wheelSearch.wheelGroups
        IN  /\ Len(groups) = 4
            /\ {groups[1].mesh, groups[2].mesh} = FrontPair(wheelSearch.nodes)
            /\ groups[1].isFront /\ groups[2].isFront
            /\ ~groups[3].isFront /\ ~groups[4].isFront
            /\ groups[1].x < groups[2].x
            /\ groups[3].x < groups[4].x


---------------------------------------------------------------------------
(* Property of the key reads of a tick, checked under SpecDrift, where     *)
(* key-down, key-up, enable and disable events interleave with the ticks.  *)

(* C27: every handler of one Car.update read the same key map: the engine  *)
(* force is the one handleAcceleration computes from the map of the tick,  *)
(* the brake the one handleBraking computes from it, the steering the one  *)
(* handleSteering computes from it, and the drift flag the four-condition  *)
(* test on it; and an input event changes none of the car's registers: it  *)
(* takes effect in the next tick.                                          *)
C27_TickReadsOneKeyMap ==
    /\ [](/\ \A i \in {0, 1} :
               car.engineForce[i] = HandleAcceleration(car, tickKeys, body).engineForce[i]
          /\ \A i \in Wheels :
               car.brake[i] = HandleBraking(car, tickKeys, body).brake[i]
          /\ \A i \in {2, 3} :
               IsKeyPressed(tickKeys, "space") <=>
                   car.frictionSlip[i] = REAR_FRICTION_HANDBRAKE /\ car.engineForce[i] = 0
          /\ car.steering = HandleSteering(car, tickKeys, body).steering
          /\ car.isDriftDetected = IsDrifting(tickKeys, body))
    /\ [][(keys' # keys \/ isEnabled' # isEnabled) =>
             car' = car /\ tickKeys' = tickKeys]_vars

(* C27 witness: a tick read the handbrake, the throttle and steer-left all *)
(* pressed, every handler acted on it, and a disable() that came after the *)
(* tick has cleared the keys without touching what the tick set.           *)
C27_Witness ==
    /\ IsKeyPressed(tickKeys, "space") /\ IsKeyPressed(tickKeys, "z")
    /\ IsKeyPressed(tickKeys, "q")
    /\ car.engineForce[0] > 0
    /\ car.brake[2] > 0
    /\ car.steering[0] > 0
    /\ car.isDriftDetected
    /\ keys = NoKeys
    /\ ~isEnabled


---------------------------------------------------------------------------
(* Property of the orbit controls, checked under SpecCameraClass.          *)

(* C28: whenever the orbit controls exist, orbitControls.enabled equals    *)
(* isOrbitMode.                                                            *)
C28_OrbitEnabledEqualsMode ==
    camera.hasOrbitControls => (camera.orbitEnabled = camera.isOrbitMode)


---------------------------------------------------------------------------
(* Properties of the control handlers' order and priorities, checked under *)
(* SpecDrive.                                                              *)

(* C29: after a tick that read the handbrake held, the engine force of the *)
(* rear wheels 2 and 3 is 0 whatever throttle keys it read, and the front  *)
(* wheels 0 and 1 carry the force handleAcceleration set.                  *)
C29_HandbrakeCutsRearDrive ==
    IsKeyPressed(tickKeys, "space") =>
        /\ \A i \in {2, 3} : car.engineForce[i] = 0
        /\ \A i \in {0, 1} :
              car.engineForce[i] = HandleAcceleration(car, tickKeys, body).engineForce[i]

(* C29 witness: a tick with the handbrake and the throttle held, in which  *)
(* handleAcceleration set a rear force that handleBraking then removed,    *)
(* while the front wheels drive.                                           *)
C29_Witness ==
    /\ IsKeyPressed(tickKeys, "space")
    /\ IsKeyPressed(tickKeys, "z")
    /\ ~IsKeyPressed(tickKeys, "s")
    /\ HandleAcceleration(car, tickKeys, body).engineForce[2] > 0
    /\ car.engineForce[2] = 0
    /\ car.engineForce[0] > 0

(* The engine force of handleAcceleration at the speed of body b *)
ThrottleForce(b) == (MAX_FORCE * SpeedFactor(GetSpeed(b))) \div MAX_SPEED_KMH

(* C30: after a tick that read both steering keys, the front wheels steer  *)
(* by the positive (left) angle; after a tick that read both throttle      *)
(* keys, the front wheels carry the reverse force; and the front wheels    *)
(* carry the forward force when only 'z' was read, so the engine-braking   *)
(* force is applied only in ticks that read neither throttle key.          *)
C30_InputPriorities ==
    /\ (IsKeyPressed(tickKeys, "q") /\ IsKeyPressed(tickKeys, "d")) =>
          \A i \in {0, 1} :
             car.steering[i] = MAX_STEER * SteeringFactor(GetSpeed(body)).value
    /\ IsKeyPressed(tickKeys, "s") =>
          \A i \in {0, 1} :
             car.engineForce[i] =
                 -((((ThrottleForce(body) * REVERSE_POWER_RATIO) \div 10) * 3) \div 10)
    /\ (IsKeyPressed(tickKeys, "z") /\ ~IsKeyPressed(tickKeys, "s")) =>
          \A i \in {0, 1} : car.engineForce[i] = (ThrottleForce(body) * 3) \div 10

(* C30 witness: a tick at speed that read all four of 'q', 'd', 'z' and    *)
(* 's', steers left and drives backwards.                                  *)
C30_Witness ==
    /\ IsKeyPressed(tickKeys, "q") /\ IsKeyPressed(tickKeys, "d")
    /\ IsKeyPressed(tickKeys, "z") /\ IsKeyPressed(tickKeys, "s")
    /\ GetSpeed(body) > 0
    /\ car.steering[0] > 0
    /\ car.engineForce[0] < 0

=============================================================================
